---------------------------- MODULE Spec2Model ----------------------------
(***************************************************************************)
(* A model of injector::Injector (include/injector/injector.hpp): the      *)
(* binding table m_Registrations, the registration operations (add,        *)
(* add_singleton and their try_ variants), single-instance retrieval       *)
(* (get<T>), collection retrieval (get<std::vector<T>>) and contains<T>.   *)
(*                                                                         *)
(* The headers injector/detail/{factory,storage,provider}.hpp are not part *)
(* of the sources at hand; the factories, the instance storages and the    *)
(* component providers are modelled from the design document.              *)
(***************************************************************************)
EXTENDS Integers, Sequences, FiniteSets, TLC

\* ------------------------------------------------------------------ bounds

\* The number of providers the binding table holds at most.
MaxProviders == 2

\* The number of retrieval calls (get<T>, get<std::vector<T>>) of one run.
MaxRetrievals == 3

\* The number of threads that use the injector, or ask for type ids, at the
\* same time.
NumThreads == 2

\* The number of calls one thread makes.
MaxCalls == 2

\* The number of nested get<T>() calls the call stack has room for.
MaxDepth == 4

\* ------------------------------------------------------- the types in play

\* Base <- Derived as in the tests; Client is a class whose constructor takes
\* a std::shared_ptr<Base>.  All three are constructible.
Types == {"Base", "Derived", "Client"}

\* std::is_base_of_v<B, D> for two distinct types (the static_assert of
\* add_registration<Base, Derived>).
is_base_of(B, D) == B = "Base" /\ D = "Derived"

\* <Base, Derived> template arguments that compile.
Bindings == {bd \in Types \X Types : is_base_of(bd[1], bd[2])}

\* The constructor parameter types of a type, in order (each parameter is a
\* std::shared_ptr<P>, converted by ConstructorArgumentResolver).
Params(T) == IF T = "Client" THEN <<"Base">> ELSE <<>>

\* The caller's producers: the counting lambda of the tests that returns
\* std::make_shared<Derived>(), and the lambda that returns nullptr.
Functions == {"factory", "null_factory"}

\* The types T these lambdas are registered for with add<T>(fn); with
\* add<Base, Derived>(fn) they are registered for every pair of Bindings.
Producible == {"Derived"}

\* An empty std::shared_ptr.
nullptr == <<"null", 0>>

\* The object the caller made before calling add<Base, Derived>(data).
Preconstructed == <<"data", 0>>

\* The values a caller passes as `data`.
Data == {Preconstructed, nullptr}

\* The n-th object made during a run (std::make_shared).
make_shared(n) == <<"obj", n>>

NoException == "none"
ComponentCreationException == "ComponentCreationException"

VARIABLES
    m_Registrations,  \* type id -> sequence of providers; DOMAIN = the keys
    call_count,       \* per caller function: how often it was invoked
    constructed,      \* the number of objects made so far (make_shared)
    registered,       \* ghost: per type, the registration calls that were to bind
    retrievals,       \* ghost: the number of retrieval calls so far
    last              \* the last call on the injector and what it gave

VARIABLES
    pc,               \* per thread: where it is in the call it is making
    arg,              \* per thread: the type its call is about
    local,            \* per thread: the value its call holds in a local
    got,              \* per thread: the results of its finished calls, in order
    started,          \* per thread: the number of calls it has started
    s_LastIndex,      \* TypeId::s_LastIndex
    id_guard,         \* per type: the guard of the static `id` of TypeId::id<T>()
    id_value,         \* per type: the static `id` of TypeId::id<T>()
    stack             \* the get<T>() calls in progress, the outermost first

\* What belongs to the injector, to the threads, to TypeId.
ivars == <<m_Registrations, call_count, constructed, registered, retrievals, last>>
tvars == <<pc, arg, local, got, started>>
idvars == <<s_LastIndex, id_guard, id_value>>

vars == <<ivars, tvars, idvars, stack>>

Threads == 1..NumThreads

\* ---------------------------------------------------- factories and storage

ConstructorFactory == [kind |-> "ConstructorFactory", fn |-> "-", data |-> nullptr]
FunctionFactory(fn) == [kind |-> "FunctionFactory", fn |-> fn, data |-> nullptr]
ConstantFactory(data) == [kind |-> "ConstantFactory", fn |-> "-", data |-> data]

\* A storage owning a factory: transient (InstanceStorage) or singleton.
\* m_Instance/built are the cache slot of the singleton storage.
InstanceStorage(factory) ==
    [kind |-> "InstanceStorage", factory |-> factory,
     built |-> FALSE, m_Instance |-> nullptr]

SingletonInstanceStorage(factory) ==
    [kind |-> "SingletonInstanceStorage", factory |-> factory,
     built |-> FALSE, m_Instance |-> nullptr]

\* A provider owning a storage.  `scope` (ghost) is the lifetime policy the
\* registration call asked for; `invoked` (ghost) counts the builds of the
\* underlying producer made through this provider; `outs` (ghost) lists what
\* the provider has returned so far.
Provider(kind, B, D, storage, scope) ==
    [kind |-> kind, base |-> B, derived |-> D, storage |-> storage,
     scope |-> scope, invoked |-> 0, outs |-> <<>>]

CastingComponentProvider(B, D, storage, scope) ==
    Provider("CastingComponentProvider", B, D, storage, scope)

NonCastingComponentProvider(T, storage, scope) ==
    Provider("NonCastingComponentProvider", T, T, storage, scope)

\* The state a retrieval threads through its nested calls.
State(regs, calls, made) == [regs |-> regs, calls |-> calls, made |-> made]

Returned(st, val) == [st |-> st, val |-> val, err |-> NoException]
Thrown(st, err) == [st |-> st, val |-> nullptr, err |-> err]


\* ---------------------------------------------------------------- retrieval

RECURSIVE get(_, _)
RECURSIVE get_unchecked(_, _)
RECURSIVE resolve(_, _)
RECURSIVE collect(_, _, _, _)

\* contains<T>() that asks for more than one provider.
contains_several(regs, T) == T \in DOMAIN regs /\ Len(regs[T]) > 1

\* contains<T>(): m_Registrations.find(type_id<T>()) != m_Registrations.end()
contains(regs, T) == T \in DOMAIN regs

\* get<std::shared_ptr<T>>() delegates to get<T>().
get_shared(s, T) == get(s, T)

\* The conversion operator written with get_unchecked, which does not test
\* the pointer.
ConstructorArgumentResolver_unchecked(s, P) == get_unchecked(s, P)

\* ConstructorArgumentResolver::operator ConstructorArgument(), for a
\* parameter of type std::shared_ptr<P>: m_Injector->get<ConstructorArgument>().
ConstructorArgumentResolver(s, P) == get_shared(s, P)

\* The rest of a call after a nested call ended in `r`: an exception passes
\* through unchanged, a return goes on with `Rest`.
Propagate(r, Rest(_)) == IF r.err # NoException THEN r ELSE Rest(r)

\* The arguments of a constructor, resolved one after the other; the first
\* failure ends the resolution.
resolve(s, params) ==
    IF params = <<>> THEN Returned(s, nullptr)
    ELSE Propagate(ConstructorArgumentResolver(s, Head(params)),
                   LAMBDA r : resolve(r.st, Tail(params)))

\* ConstructorFactory<D>::build(injector): resolve the constructor's
\* arguments, then make the object.
ConstructorFactory_build(s, D) ==
    Propagate(resolve(s, Params(D)),
              LAMBDA r : Returned([r.st EXCEPT !.made = @ + 1],
                                  make_shared(r.st.made + 1)))

\* FunctionFactory<D>::build(injector): whatever the caller's function gives.
FunctionFactory_build(s, fn) ==
    IF fn = "factory"
    THEN Returned([s EXCEPT !.calls[fn] = @ + 1, !.made = @ + 1],
                  make_shared(s.made + 1))
    ELSE Returned([s EXCEPT !.calls[fn] = @ + 1], nullptr)

\* ConstantFactory<D>::build(injector): the value given at registration.
ConstantFactory_build(s, data) == Returned(s, data)

\* IFactory<D>::build(injector), by the factory's kind.
Factory_build(s, factory, D) ==
    CASE factory.kind = "ConstructorFactory" -> ConstructorFactory_build(s, D)
      [] factory.kind = "FunctionFactory" -> FunctionFactory_build(s, factory.fn)
      [] factory.kind = "ConstantFactory" -> ConstantFactory_build(s, factory.data)

\* InstanceStorage<D>::get(injector) of the storage of provider i of `key`:
\* build on every call.
InstanceStorage_get(s, key, i) ==
    Propagate(Factory_build(s, s.regs[key][i].storage.factory, s.regs[key][i].derived),
              LAMBDA r : Returned([r.st EXCEPT !.regs[key][i].invoked = @ + 1], r.val))

\* SingletonInstanceStorage<D>::get(injector) of the storage of provider i of
\* `key`: the first call builds and fills the cache slot, every later call
\* returns the slot, an empty one included.  A build that throws leaves the
\* slot as it was.
SingletonInstanceStorage_get(s, key, i) ==
    IF s.regs[key][i].storage.built
    THEN Returned(s, s.regs[key][i].storage.m_Instance)
    ELSE Propagate(InstanceStorage_get(s, key, i),
                   LAMBDA r : Returned(
                       [r.st EXCEPT !.regs[key][i].storage.built = TRUE,
                                    !.regs[key][i].storage.m_Instance = r.val],
                       r.val))

\* The virtual call storage->get(injector).
Storage_get(s, key, i) ==
    IF s.regs[key][i].storage.kind = "SingletonInstanceStorage"
    THEN SingletonInstanceStorage_get(s, key, i)
    ELSE InstanceStorage_get(s, key, i)

\* ComponentProviderBase<B>::get(injector) of provider i of `key`: the
\* storage's instance; the casting provider's upcast yields a handle to the
\* same object.
ComponentProvider_get(s, key, i) ==
    Propagate(Storage_get(s, key, i),
              LAMBDA r : Returned([r.st EXCEPT !.regs[key][i].outs = Append(@, r.val)],
                                  r.val))

\* get_unchecked<T>() with front() in place of back().
get_unchecked_front(s, T) ==
    IF contains(s.regs, T)
    THEN ComponentProvider_get(s, T, 1)
    ELSE ConstructorFactory_build(s, T)

\* get_unchecked<T>() that registers the type it constructs by default, as
\* add<T>() would, and retrieves through the new provider.
get_unchecked_self_registering(s, T) ==
    IF contains(s.regs, T)
    THEN ComponentProvider_get(s, T, Len(s.regs[T]))
    ELSE ComponentProvider_get(
             [s EXCEPT !.regs = @ @@ (T :>
                 <<NonCastingComponentProvider(T, InstanceStorage(ConstructorFactory),
                                               "transient")>>)],
             T, 1)

\* get_unchecked<T>() that gives an empty pointer for a type without
\* registration.
get_unchecked_registered_only(s, T) ==
    IF contains(s.regs, T)
    THEN ComponentProvider_get(s, T, Len(s.regs[T]))
    ELSE Returned(s, nullptr)

\* Injector::get_unchecked<T>(): the last provider of T, or, with no
\* registration, a ConstructorFactory<T> made on the spot.
get_unchecked(s, T) ==
    IF contains(s.regs, T)
    THEN ComponentProvider_get(s, T, Len(s.regs[T]))
    ELSE ConstructorFactory_build(s, T)

\* get<T>() without the test of the value.
get_unverified(s, T) == get_unchecked(s, T)

\* Injector::get<T>(): throws when get_unchecked gives an empty pointer.
get(s, T) ==
    Propagate(get_unchecked(s, T),
              LAMBDA value : IF value.val = nullptr
                             THEN Thrown(value.st, ComponentCreationException)
                             ELSE value)

\* The loop of get<std::vector<T>>() that inserts at the front of the vector.
collect_prepend(s, T, i, instances) ==
    IF i > Len(s.regs[T]) THEN Returned(s, instances)
    ELSE Propagate(ComponentProvider_get(s, T, i),
                   LAMBDA r : collect(r.st, T, i + 1, <<r.val>> \o instances))

\* The loop of get<std::vector<T>>() that asks each provider's factory for a
\* new instance, past the storage and its cache slot.
collect_uncached(s, T, i, instances) ==
    IF i > Len(s.regs[T]) THEN Returned(s, instances)
    ELSE Propagate(InstanceStorage_get(s, T, i),
                   LAMBDA r : collect(
                       [r.st EXCEPT !.regs[T][i].outs = Append(@, r.val)],
                       T, i + 1, Append(instances, r.val)))

\* The loop of get<std::vector<T>>() with the test of get<T>() on every
\* instance.
collect_checked(s, T, i, instances) ==
    IF i > Len(s.regs[T]) THEN Returned(s, instances)
    ELSE Propagate(ComponentProvider_get(s, T, i),
                   LAMBDA r : IF r.val = nullptr
                              THEN Thrown(r.st, ComponentCreationException)
                              ELSE collect(r.st, T, i + 1, Append(instances, r.val)))

\* The loop of get<std::vector<T>>() from provider i on; `instances` is the
\* vector so far.
collect(s, T, i, instances) ==
    IF i > Len(s.regs[T]) THEN Returned(s, instances)
    ELSE Propagate(ComponentProvider_get(s, T, i),
                   LAMBDA r : collect(r.st, T, i + 1, Append(instances, r.val)))

\* get<std::vector<T>>() that falls back to get_unchecked<T>() as get<T>() does.
get_vector_fallback(s, T) ==
    IF contains(s.regs, T) THEN collect(s, T, 1, <<>>)
    ELSE Propagate(get_unchecked(s, T), LAMBDA r : Returned(r.st, <<r.val>>))

\* Injector::get<std::vector<T>>(): every provider of T, in the order of the
\* vector; no registration, no instances.
get_vector(s, T) ==
    IF contains(s.regs, T) THEN collect(s, T, 1, <<>>) ELSE Returned(s, <<>>)

\* get<std::vector<std::shared_ptr<T>>>() delegates to get<std::vector<T>>().
get_vector_shared(s, T) == get_vector(s, T)

\* ------------------------------------------------------------- registration

\* add_registration with an assignment in place of push_back.
add_registration_assign(regs, key, provider) ==
    IF key \in DOMAIN regs
    THEN [regs EXCEPT ![key] = <<provider>>]
    ELSE regs @@ (key :> <<provider>>)

\* add_registration<T>(storage) and add_registration<Base, Derived>(storage):
\* m_Registrations[type_id<Base>()].push_back(provider); operator[] makes
\* the key, with an empty vector, when it is not there yet.
add_registration(regs, key, provider) ==
    IF key \in DOMAIN regs
    THEN [regs EXCEPT ![key] = Append(@, provider)]
    ELSE regs @@ (key :> <<provider>>)

\* add<T>()
add(regs, T) ==
    add_registration(regs, T,
        NonCastingComponentProvider(T, InstanceStorage(ConstructorFactory), "transient"))

\* try_add<T>()
try_add(regs, T) == IF ~contains(regs, T) THEN add(regs, T) ELSE regs

\* add<Base, Derived>()
add_derived(regs, B, D) ==
    add_registration(regs, B,
        CastingComponentProvider(B, D, InstanceStorage(ConstructorFactory), "transient"))

\* try_add<Base, Derived>()
try_add_derived(regs, B, D) ==
    IF ~contains(regs, B) THEN add_derived(regs, B, D) ELSE regs

\* add_singleton<T>()
add_singleton(regs, T) ==
    add_registration(regs, T,
        NonCastingComponentProvider(T, SingletonInstanceStorage(ConstructorFactory),
                                    "singleton"))

\* try_add_singleton<T>()
try_add_singleton(regs, T) ==
    IF ~contains(regs, T) THEN add_singleton(regs, T) ELSE regs

\* add_singleton<Base, Derived>() that files the provider under Derived.
add_singleton_derived_by_derived(regs, B, D) ==
    add_registration(regs, D,
        CastingComponentProvider(B, D, SingletonInstanceStorage(ConstructorFactory),
                                 "singleton"))

\* add_singleton<Base, Derived>()
add_singleton_derived(regs, B, D) ==
    add_registration(regs, B,
        CastingComponentProvider(B, D, SingletonInstanceStorage(ConstructorFactory),
                                 "singleton"))

\* try_add_singleton<Base, Derived>()
try_add_singleton_derived(regs, B, D) ==
    IF ~contains(regs, B) THEN add_singleton_derived(regs, B, D) ELSE regs

\* add<T>(fn)
add_fn(regs, T, fn) ==
    add_registration(regs, T,
        NonCastingComponentProvider(T, InstanceStorage(FunctionFactory(fn)), "transient"))

\* try_add<T>(fn)
try_add_fn(regs, T, fn) == IF ~contains(regs, T) THEN add_fn(regs, T, fn) ELSE regs

\* add<Base, Derived>(fn) with the storage of add_singleton<Base, Derived>(fn).
add_derived_fn_cached(regs, B, D, fn) ==
    add_registration(regs, B,
        CastingComponentProvider(B, D, SingletonInstanceStorage(FunctionFactory(fn)),
                                 "transient"))

\* add<Base, Derived>(fn)
add_derived_fn(regs, B, D, fn) ==
    add_registration(regs, B,
        CastingComponentProvider(B, D, InstanceStorage(FunctionFactory(fn)), "transient"))

\* try_add<Base, Derived>(fn) without the test of contains<Base>().
try_add_derived_fn_unconditional(regs, B, D, fn) == add_derived_fn(regs, B, D, fn)

\* try_add<Base, Derived>(fn)
try_add_derived_fn(regs, B, D, fn) ==
    IF ~contains(regs, B) THEN add_derived_fn(regs, B, D, fn) ELSE regs

\* add_singleton<T>(fn) with the storage of add<T>(fn).
add_singleton_fn_transient(regs, T, fn) ==
    add_registration(regs, T,
        NonCastingComponentProvider(T, InstanceStorage(FunctionFactory(fn)), "singleton"))

\* add_singleton<T>(fn)
add_singleton_fn(regs, T, fn) ==
    add_registration(regs, T,
        NonCastingComponentProvider(T, SingletonInstanceStorage(FunctionFactory(fn)),
                                    "singleton"))

\* try_add_singleton<T>(fn)
try_add_singleton_fn(regs, T, fn) ==
    IF ~contains(regs, T) THEN add_singleton_fn(regs, T, fn) ELSE regs

\* add_singleton<Base, Derived>(fn) with the storage of add<Base, Derived>(fn).
add_singleton_derived_fn_transient(regs, B, D, fn) ==
    add_registration(regs, B,
        CastingComponentProvider(B, D, InstanceStorage(FunctionFactory(fn)), "singleton"))

\* add_singleton<Base, Derived>(fn)
add_singleton_derived_fn(regs, B, D, fn) ==
    add_registration(regs, B,
        CastingComponentProvider(B, D, SingletonInstanceStorage(FunctionFactory(fn)),
                                 "singleton"))

\* try_add_singleton<Base, Derived>(fn)
try_add_singleton_derived_fn(regs, B, D, fn) ==
    IF ~contains(regs, B) THEN add_singleton_derived_fn(regs, B, D, fn) ELSE regs

\* add<Base, Derived>(data) that drops `data` and registers the constructor.
add_derived_data_constructed(regs, B, D, data) ==
    add_registration(regs, B,
        CastingComponentProvider(B, D, InstanceStorage(ConstructorFactory), "constant"))

\* add<Base, Derived>(data): a constant factory in a transient storage.
add_derived_data(regs, B, D, data) ==
    add_registration(regs, B,
        CastingComponentProvider(B, D, InstanceStorage(ConstantFactory(data)), "constant"))

\* try_add<Base, Derived>(data)
try_add_derived_data(regs, B, D, data) ==
    IF ~contains(regs, B) THEN add_derived_data(regs, B, D, data) ELSE regs

\* ------------------------------------------------------------------ actions

RECURSIVE Size(_, _)
\* The number of providers under the keys `keys` of the table.
Size(regs, keys) ==
    IF keys = {} THEN 0
    ELSE LET k == CHOOSE k \in keys : TRUE
         IN  Len(regs[k]) + Size(regs, keys \ {k})

NumProviders(regs) == Size(regs, DOMAIN regs)

Call(op, T) ==
    [op |-> op, type |-> T, val |-> nullptr, vals |-> <<>>, flag |-> FALSE,
     err |-> NoException]

\* A registration call for the key `key` that leaves the table `regs`; `op`
\* is "add" for add and add_singleton, "try_add" for their try_ variants.
Registration(op, key, regs) ==
    /\ NumProviders(regs) <= MaxProviders
    /\ m_Registrations' = regs
    /\ registered' = [registered EXCEPT ![key] = IF op = "add" \/ @ = 0 THEN @ + 1 ELSE @]
    /\ last' = Call(op, key)
    /\ UNCHANGED <<call_count, constructed, retrievals, tvars, idvars, stack>>

CallAdd(T) == Registration("add", T, add(m_Registrations, T))
CallTryAdd(T) == Registration("try_add", T, try_add(m_Registrations, T))
CallAddDerived(B, D) == Registration("add", B, add_derived(m_Registrations, B, D))
CallTryAddDerived(B, D) ==
    Registration("try_add", B, try_add_derived(m_Registrations, B, D))
CallAddSingleton(T) ==
    Registration("add", T, add_singleton(m_Registrations, T))
CallTryAddSingleton(T) ==
    Registration("try_add", T, try_add_singleton(m_Registrations, T))
CallAddSingletonDerived(B, D) ==
    Registration("add", B, add_singleton_derived(m_Registrations, B, D))
CallTryAddSingletonDerived(B, D) ==
    Registration("try_add", B,
                 try_add_singleton_derived(m_Registrations, B, D))
CallAddFn(T, fn) == Registration("add", T, add_fn(m_Registrations, T, fn))
CallTryAddFn(T, fn) == Registration("try_add", T, try_add_fn(m_Registrations, T, fn))
CallAddDerivedFn(B, D, fn) ==
    Registration("add", B, add_derived_fn(m_Registrations, B, D, fn))
CallTryAddDerivedFn(B, D, fn) ==
    Registration("try_add", B, try_add_derived_fn(m_Registrations, B, D, fn))
CallAddSingletonFn(T, fn) ==
    Registration("add", T, add_singleton_fn(m_Registrations, T, fn))
CallTryAddSingletonFn(T, fn) ==
    Registration("try_add", T, try_add_singleton_fn(m_Registrations, T, fn))
CallAddSingletonDerivedFn(B, D, fn) ==
    Registration("add", B,
                 add_singleton_derived_fn(m_Registrations, B, D, fn))
CallTryAddSingletonDerivedFn(B, D, fn) ==
    Registration("try_add", B,
                 try_add_singleton_derived_fn(m_Registrations, B, D, fn))
CallAddDerivedData(B, D, data) ==
    Registration("add", B, add_derived_data(m_Registrations, B, D, data))
CallTryAddDerivedData(B, D, data) ==
    Registration("try_add", B, try_add_derived_data(m_Registrations, B, D, data))

\* The injector as a retrieval finds it.
Now == State(m_Registrations, call_count, constructed)

\* What a retrieval that ended in `r` leaves behind.
Retrieved(r) ==
    /\ retrievals < MaxRetrievals
    /\ retrievals' = retrievals + 1
    /\ m_Registrations' = r.st.regs
    /\ call_count' = r.st.calls
    /\ constructed' = r.st.made
    /\ UNCHANGED <<registered, tvars, idvars, stack>>

\* injector.get<T>()
CallGet(T) ==
    LET r == get(Now, T)
    IN  /\ Retrieved(r)
        /\ last' = [Call("get", T) EXCEPT !.val = r.val, !.err = r.err]

\* injector.get<std::vector<T>>()
CallGetVector(T) ==
    LET r == get_vector(Now, T)
    IN  /\ Retrieved(r)
        /\ last' = [Call("get_vector", T) EXCEPT
                      !.vals = IF r.err = NoException THEN r.val ELSE <<>>,
                      !.err = r.err]

\* contains<T>() written with m_Registrations[type_id<T>()], which makes the key.
CallContains_indexing(T) ==
    /\ last' = [Call("contains", T) EXCEPT !.flag = contains(m_Registrations, T)]
    /\ m_Registrations' = IF T \in DOMAIN m_Registrations THEN m_Registrations
                          ELSE m_Registrations @@ (T :> <<>>)
    /\ UNCHANGED <<call_count, constructed, registered, retrievals, tvars, idvars,
                   stack>>

\* injector.contains<T>()
CallContains(T) ==
    /\ last' = [Call("contains", T) EXCEPT !.flag = contains(m_Registrations, T)]
    /\ UNCHANGED <<m_Registrations, call_count, constructed, registered, retrievals,
                   tvars, idvars, stack>>

Init ==
    /\ m_Registrations = [k \in {} |-> <<>>]
    /\ call_count = [fn \in Functions |-> 0]
    /\ constructed = 0
    /\ registered = [T \in Types |-> 0]
    /\ retrievals = 0
    /\ last = Call("Injector", "-")
    /\ pc = [t \in Threads |-> "idle"]
    /\ arg = [t \in Threads |-> "-"]
    /\ local = [t \in Threads |-> nullptr]
    /\ got = [t \in Threads |-> <<>>]
    /\ started = [t \in Threads |-> 0]
    /\ s_LastIndex = 0
    /\ id_guard = [T \in Types |-> "uninitialized"]
    /\ id_value = [T \in Types |-> 0]
    /\ stack = <<>>

Next ==
    \/ \E T \in Types : CallAdd(T)
    \/ \E T \in Types : CallTryAdd(T)
    \/ \E bd \in Bindings : CallAddDerived(bd[1], bd[2])
    \/ \E bd \in Bindings : CallTryAddDerived(bd[1], bd[2])
    \/ \E T \in Types : CallAddSingleton(T)
    \/ \E T \in Types : CallTryAddSingleton(T)
    \/ \E bd \in Bindings : CallAddSingletonDerived(bd[1], bd[2])
    \/ \E bd \in Bindings : CallTryAddSingletonDerived(bd[1], bd[2])
    \/ \E T \in Producible, fn \in Functions : CallAddFn(T, fn)
    \/ \E T \in Producible, fn \in Functions : CallTryAddFn(T, fn)
    \/ \E bd \in Bindings, fn \in Functions : CallAddDerivedFn(bd[1], bd[2], fn)
    \/ \E bd \in Bindings, fn \in Functions : CallTryAddDerivedFn(bd[1], bd[2], fn)
    \/ \E T \in Producible, fn \in Functions : CallAddSingletonFn(T, fn)
    \/ \E T \in Producible, fn \in Functions : CallTryAddSingletonFn(T, fn)
    \/ \E bd \in Bindings, fn \in Functions :
          CallAddSingletonDerivedFn(bd[1], bd[2], fn)
    \/ \E bd \in Bindings, fn \in Functions :
          CallTryAddSingletonDerivedFn(bd[1], bd[2], fn)
    \/ \E bd \in Bindings, data \in Data : CallAddDerivedData(bd[1], bd[2], data)
    \/ \E bd \in Bindings, data \in Data : CallTryAddDerivedData(bd[1], bd[2], data)
    \/ \E T \in Types : CallGet(T)
    \/ \E T \in Types : CallGetVector(T)
    \/ \E T \in Types : CallContains(T)

Spec == Init /\ [][Next]_vars

\* ------------------------------------------------------ TypeId, by threads

\* A thread starts a call about the type T.
Enter(t, T, at) ==
    /\ pc[t] = "idle"
    /\ started[t] < MaxCalls
    /\ started' = [started EXCEPT ![t] = @ + 1]
    /\ pc' = [pc EXCEPT ![t] = at]
    /\ arg' = [arg EXCEPT ![t] = T]

\* A thread's call returns `value`.
Leave(t, value) ==
    /\ got' = [got EXCEPT ![t] = Append(@, <<arg[t], value>>)]
    /\ pc' = [pc EXCEPT ![t] = "idle"]

\* The types the threads ask the id of.
IdTypes == {"Base", "Derived"}

\* A thread calls type_id<T>(), which is TypeId::id<T>().
type_id(t, T) ==
    /\ Enter(t, T, "id_guard")
    /\ UNCHANGED <<ivars, idvars, local, got, stack>>

\* The static `id` with no guard: a thread that finds it uninitialized
\* initializes it, whether or not another thread is doing so.
TypeId_id_guard_unprotected(t) ==
    /\ pc[t] = "id_guard"
    /\ IF id_guard[arg[t]] = "initialized"
       THEN /\ local' = [local EXCEPT ![t] = id_value[arg[t]]]
            /\ pc' = [pc EXCEPT ![t] = "id_return"]
            /\ UNCHANGED id_guard
       ELSE /\ id_guard' = [id_guard EXCEPT ![arg[t]] = "initializing"]
            /\ pc' = [pc EXCEPT ![t] = "id_fetch_add"]
            /\ UNCHANGED local
    /\ UNCHANGED <<ivars, s_LastIndex, id_value, arg, got, started, stack>>

\* `static const auto id = ...`: a function-local static is initialized once.
\* The thread that finds it initialized reads it; the first thread to find it
\* uninitialized takes the guard and runs the initializer; a thread that
\* finds another one initializing waits.
TypeId_id_guard(t) ==
    /\ pc[t] = "id_guard"
    /\ id_guard[arg[t]] \in {"initialized", "uninitialized"}
    /\ IF id_guard[arg[t]] = "initialized"
       THEN /\ local' = [local EXCEPT ![t] = id_value[arg[t]]]
            /\ pc' = [pc EXCEPT ![t] = "id_return"]
            /\ UNCHANGED id_guard
       ELSE /\ id_guard' = [id_guard EXCEPT ![arg[t]] = "initializing"]
            /\ pc' = [pc EXCEPT ![t] = "id_fetch_add"]
            /\ UNCHANGED local
    /\ UNCHANGED <<ivars, s_LastIndex, id_value, arg, got, started, stack>>

\* s_LastIndex.fetch_add(1, std::memory_order_relaxed): one atomic step that
\* gives the old value.
TypeId_id_fetch_add(t) ==
    /\ pc[t] = "id_fetch_add"
    /\ local' = [local EXCEPT ![t] = s_LastIndex]
    /\ s_LastIndex' = s_LastIndex + 1
    /\ pc' = [pc EXCEPT ![t] = "id_init"]
    /\ UNCHANGED <<ivars, id_guard, id_value, arg, got, started, stack>>

\* The initializer's value becomes the static `id`, and the guard is released.
TypeId_id_init(t) ==
    /\ pc[t] = "id_init"
    /\ id_value' = [id_value EXCEPT ![arg[t]] = local[t]]
    /\ id_guard' = [id_guard EXCEPT ![arg[t]] = "initialized"]
    /\ pc' = [pc EXCEPT ![t] = "id_return"]
    /\ UNCHANGED <<ivars, s_LastIndex, local, arg, got, started, stack>>

\* return id;
TypeId_id_return(t) ==
    /\ pc[t] = "id_return"
    /\ Leave(t, local[t])
    /\ UNCHANGED <<ivars, idvars, local, arg, started, stack>>

NextTypeId ==
    \/ \E t \in Threads, T \in IdTypes : type_id(t, T)
    \/ \E t \in Threads : TypeId_id_guard(t)
    \/ \E t \in Threads : TypeId_id_fetch_add(t)
    \/ \E t \in Threads : TypeId_id_init(t)
    \/ \E t \in Threads : TypeId_id_return(t)

\* Threads that ask for type ids.
SpecTypeId == Init /\ [][NextTypeId]_vars

\* ---------------------------------- a singleton binding, used by threads

\* The main thread binds a type as a singleton of the counting function
\* before the other threads start: add_singleton<T>(fn) or
\* add_singleton<Base, Derived>(fn).
BindSingleton ==
    /\ DOMAIN m_Registrations = {}
    /\ \/ \E T \in Producible : CallAddSingletonFn(T, "factory")
       \/ \E bd \in Bindings : CallAddSingletonDerivedFn(bd[1], bd[2], "factory")

\* The provider get_unchecked<T>() takes for the call of thread t: back().
ProviderIndex(t) == Len(m_Registrations[arg[t]])
ProviderOf(t) == m_Registrations[arg[t]][ProviderIndex(t)]

\* A thread calls get<T>() for a bound type; get_unchecked finds the
\* provider, whose storage is asked next.
get_enter(t, T) ==
    /\ contains(m_Registrations, T)
    /\ Enter(t, T, "storage_check")
    /\ UNCHANGED <<ivars, idvars, local, got, stack>>

\* SingletonInstanceStorage::get, the test of the cache slot: a filled slot
\* is returned, an empty one sends the thread to the factory.
SingletonInstanceStorage_get_check(t) ==
    /\ pc[t] = "storage_check"
    /\ IF ProviderOf(t).storage.built
       THEN /\ local' = [local EXCEPT ![t] = ProviderOf(t).storage.m_Instance]
            /\ pc' = [pc EXCEPT ![t] = "get_return"]
       ELSE /\ pc' = [pc EXCEPT ![t] = "storage_build"]
            /\ UNCHANGED local
    /\ UNCHANGED <<ivars, idvars, arg, got, started, stack>>

\* SingletonInstanceStorage::get, the call of the factory.
SingletonInstanceStorage_get_build(t) ==
    /\ pc[t] = "storage_build"
    /\ LET r == FunctionFactory_build(Now, ProviderOf(t).storage.factory.fn)
       IN  /\ call_count' = r.st.calls
           /\ constructed' = r.st.made
           /\ local' = [local EXCEPT ![t] = r.val]
    /\ m_Registrations' =
          [m_Registrations EXCEPT ![arg[t]][ProviderIndex(t)].invoked = @ + 1]
    /\ pc' = [pc EXCEPT ![t] = "storage_store"]
    /\ UNCHANGED <<registered, retrievals, last, idvars, arg, got, started, stack>>

\* The write of the cache slot left out.
SingletonInstanceStorage_get_store_skipped(t) ==
    /\ pc[t] = "storage_store"
    /\ pc' = [pc EXCEPT ![t] = "get_return"]
    /\ UNCHANGED <<ivars, idvars, local, arg, got, started, stack>>

\* SingletonInstanceStorage::get, the write of the cache slot, with no lock
\* around test, build and write.
SingletonInstanceStorage_get_store(t) ==
    /\ pc[t] = "storage_store"
    /\ m_Registrations' =
          [m_Registrations EXCEPT
              ![arg[t]][ProviderIndex(t)].storage.built = TRUE,
              ![arg[t]][ProviderIndex(t)].storage.m_Instance = local[t]]
    /\ pc' = [pc EXCEPT ![t] = "get_return"]
    /\ UNCHANGED <<call_count, constructed, registered, retrievals, last,
                   idvars, local, arg, got, started, stack>>

\* get<T>() ends: an empty pointer is thrown as ComponentCreationException,
\* anything else is returned.
get_return(t) ==
    /\ pc[t] = "get_return"
    /\ Leave(t, [val |-> local[t],
                 err |-> IF local[t] = nullptr THEN ComponentCreationException
                         ELSE NoException])
    /\ m_Registrations' =
          [m_Registrations EXCEPT ![arg[t]][ProviderIndex(t)].outs = Append(@, local[t])]
    /\ UNCHANGED <<call_count, constructed, registered, retrievals, last,
                   idvars, local, arg, started, stack>>

NextSingletonRace ==
    \/ BindSingleton
    \/ \E t \in Threads, T \in Types : get_enter(t, T)
    \/ \E t \in Threads : SingletonInstanceStorage_get_check(t)
    \/ \E t \in Threads : SingletonInstanceStorage_get_build(t)
    \/ \E t \in Threads : SingletonInstanceStorage_get_store(t)
    \/ \E t \in Threads : get_return(t)

\* Threads that retrieve from one singleton binding.
SpecSingletonRace == Init /\ [][NextSingletonRace]_vars

\* ------------------------------------------------------ try_add, by threads

\* A thread calls try_add<T>(fn).
try_add_fn_enter(t, T, fn) ==
    /\ Enter(t, <<T, fn>>, "try_add_contains")
    /\ UNCHANGED <<ivars, idvars, local, got, stack>>

\* try_add<T>(fn) whose test passes whatever contains<T>() says.
try_add_fn_contains_ignored(t) ==
    /\ pc[t] = "try_add_contains"
    /\ local' = [local EXCEPT ![t] = contains(m_Registrations, arg[t][1])]
    /\ pc' = [pc EXCEPT ![t] = "try_add_register"]
    /\ UNCHANGED <<ivars, idvars, arg, got, started, stack>>

\* if (!contains<T>()): the first of the two steps of try_add<T>(fn).
try_add_fn_contains(t) ==
    /\ pc[t] = "try_add_contains"
    /\ local' = [local EXCEPT ![t] = contains(m_Registrations, arg[t][1])]
    /\ pc' = [pc EXCEPT ![t] = IF contains(m_Registrations, arg[t][1])
                               THEN "try_add_return" ELSE "try_add_register"]
    /\ UNCHANGED <<ivars, idvars, arg, got, started, stack>>

\* add<T>(fn) inside try_add<T>(fn): the second step, add_registration.
try_add_fn_register(t) ==
    /\ pc[t] = "try_add_register"
    /\ m_Registrations' = add_fn(m_Registrations, arg[t][1], arg[t][2])
    /\ registered' = [registered EXCEPT ![arg[t][1]] = @ + 1]
    /\ pc' = [pc EXCEPT ![t] = "try_add_return"]
    /\ UNCHANGED <<call_count, constructed, retrievals, last,
                   idvars, local, arg, got, started, stack>>

\* try_add<T>(fn) returns; what contains<T>() gave is kept as the result.
try_add_fn_return(t) ==
    /\ pc[t] = "try_add_return"
    /\ Leave(t, local[t])
    /\ UNCHANGED <<ivars, idvars, local, arg, started, stack>>

NextTryAddRace ==
    \/ \E t \in Threads, T \in Producible, fn \in Functions : try_add_fn_enter(t, T, fn)
    \/ \E t \in Threads : try_add_fn_contains(t)
    \/ \E t \in Threads : try_add_fn_register(t)
    \/ \E t \in Threads : try_add_fn_return(t)

\* Threads that call try_add<T>(fn) on one injector.
SpecTryAddRace == Init /\ [][NextTryAddRace]_vars

\* ------------------------------------- get<T>() call by call, on a stack

\* Classes with constructors that take each other: Ping(std::shared_ptr<Pong>)
\* and Pong(std::shared_ptr<Ping>); Node(std::shared_ptr<Leaf>) and Leaf().
StackTypes == {"Ping", "Pong", "Node", "Leaf"}

\* The constructor parameter types of a class, as ConstructorFactory finds them.
Signature(T) ==
    CASE T = "Ping" -> <<"Pong">>
      [] T = "Pong" -> <<"Ping">>
      [] T = "Node" -> <<"Leaf">>
      [] T = "Leaf" -> <<>>
      [] OTHER -> Params(T)

\* The classes the caller's functions are registered for in these runs.
StackProducible == {"Leaf", "Pong"}

\* What ends a run when the call stack has no room left.
StackExhaustion == "StackExhaustion"

\* The error of a call that has not ended.
Pending == "pending"

\* A typed error for a dependency cycle, which the code does not have.
CircularDependency == "CircularDependency"

\* One get<T>() in progress: the type, and the constructor parameter to
\* resolve next.
Frame(T) == [type |-> T, next |-> 1]

Top == stack[Len(stack)]

\* it->second.back(): the last provider of a bound type.
back(T) == m_Registrations[T][Len(m_Registrations[T])]

\* A get<T>() is in progress and nothing has ended it.
Running == stack # <<>> /\ last.err = Pending

\* The storage of T's last provider is a singleton with its slot filled.
Cached(T) ==
    /\ contains(m_Registrations, T)
    /\ back(T).storage.kind = "SingletonInstanceStorage"
    /\ back(T).storage.built

\* get_unchecked<T>() ends in the caller's function.
ByFunction(T) ==
    /\ contains(m_Registrations, T)
    /\ ~Cached(T)
    /\ back(T).storage.factory.kind = "FunctionFactory"

\* get_unchecked<T>() ends in ConstructorFactory<T>: T has no binding, or
\* its last provider holds the constructor factory and has to build.
ByConstructor(T) ==
    IF contains(m_Registrations, T)
    THEN ~Cached(T) /\ back(T).storage.factory = ConstructorFactory
    ELSE TRUE

\* The table after T's last provider has built `value`: a singleton storage
\* keeps it.
Stored(T, value) ==
    IF contains(m_Registrations, T)
          /\ back(T).storage.kind = "SingletonInstanceStorage"
    THEN [m_Registrations EXCEPT
             ![T][Len(m_Registrations[T])].storage.built = TRUE,
             ![T][Len(m_Registrations[T])].storage.m_Instance = value]
    ELSE m_Registrations

\* The innermost get<T>() has `value` from get_unchecked<T>(): an empty
\* pointer is thrown as ComponentCreationException, which no frame catches;
\* an instance goes to the caller, the constructor that waits for its next
\* argument or the caller of the outermost get<T>().
Finish(value) ==
    IF value = nullptr
    THEN /\ stack' = <<>>
         /\ last' = [last EXCEPT !.err = ComponentCreationException]
    ELSE IF Len(stack) = 1
    THEN /\ stack' = <<>>
         /\ last' = [last EXCEPT !.val = value, !.err = NoException]
    ELSE /\ stack' = [SubSeq(stack, 1, Len(stack) - 1) EXCEPT
                         ![Len(stack) - 1].next = @ + 1]
         /\ UNCHANGED last

\* No call is in progress and the process has not ended.
Quiet == stack = <<>> /\ last.err # StackExhaustion

\* A registration for one of the classes above.
StackRegistration(T, regs) ==
    /\ Quiet
    /\ NumProviders(regs) <= MaxProviders
    /\ m_Registrations' = regs
    /\ last' = Call("add", T)
    /\ UNCHANGED <<call_count, constructed, registered, retrievals, tvars, idvars,
                   stack>>

StackAdd(T) == StackRegistration(T, add(m_Registrations, T))
StackAddSingleton(T) == StackRegistration(T, add_singleton(m_Registrations, T))
StackAddFn(T, fn) == StackRegistration(T, add_fn(m_Registrations, T, fn))
StackAddSingletonFn(T, fn) ==
    StackRegistration(T, add_singleton_fn(m_Registrations, T, fn))

\* The caller calls injector.get<T>().
Stack_get(T) ==
    /\ Quiet
    /\ retrievals < MaxRetrievals
    /\ retrievals' = retrievals + 1
    /\ stack' = <<Frame(T)>>
    /\ last' = [Call("get", T) EXCEPT !.err = Pending]
    /\ UNCHANGED <<m_Registrations, call_count, constructed, registered, tvars, idvars>>

\* The innermost get<T>() finds a filled singleton slot.
Stack_cached ==
    /\ Running
    /\ Cached(Top.type)
    /\ Finish(back(Top.type).storage.m_Instance)
    /\ UNCHANGED <<m_Registrations, call_count, constructed, registered, retrievals,
                   tvars, idvars>>

\* The innermost get<T>() calls the caller's function.
Stack_function ==
    /\ Running
    /\ ByFunction(Top.type)
    /\ LET r == FunctionFactory_build(Now, back(Top.type).storage.factory.fn)
       IN  /\ call_count' = r.st.calls
           /\ constructed' = r.st.made
           /\ m_Registrations' = Stored(Top.type, r.val)
           /\ Finish(r.val)
    /\ UNCHANGED <<registered, retrievals, tvars, idvars>>

\* The conversion operator with a test for a type that is being constructed
\* further out: a typed error ends the retrieval.
ConstructorArgumentResolver_detecting ==
    /\ Running
    /\ ByConstructor(Top.type)
    /\ Top.next <= Len(Signature(Top.type))
    /\ Len(stack) < MaxDepth
    /\ IF \E i \in 1..Len(stack) : stack[i].type = Signature(Top.type)[Top.next]
       THEN /\ stack' = <<>>
            /\ last' = [last EXCEPT !.err = CircularDependency]
       ELSE /\ stack' = Append(stack, Frame(Signature(Top.type)[Top.next]))
            /\ UNCHANGED last
    /\ UNCHANGED <<m_Registrations, call_count, constructed, registered, retrievals,
                   tvars, idvars>>

\* The conversion operator without the !std::is_same_v<ConstructorArgument, T>
\* condition: the resolver of T converts to T itself, a get<T>() inside
\* get<T>().
ConstructorArgumentResolver_convert_to_self ==
    /\ Running
    /\ ByConstructor(Top.type)
    /\ Top.next <= Len(Signature(Top.type))
    /\ Len(stack) < MaxDepth
    /\ stack' = Append(stack, Frame(Top.type))
    /\ UNCHANGED <<ivars, tvars, idvars>>

\* ConstructorFactory<T> needs its next argument: the conversion operator of
\* ConstructorArgumentResolver calls m_Injector->get<P>(), one more frame.
ConstructorArgumentResolver_convert ==
    /\ Running
    /\ ByConstructor(Top.type)
    /\ Top.next <= Len(Signature(Top.type))
    /\ Len(stack) < MaxDepth
    /\ stack' = Append(stack, Frame(Signature(Top.type)[Top.next]))
    /\ UNCHANGED <<ivars, tvars, idvars>>

\* The same call with no room left on the call stack: the process ends.
Stack_exhausted ==
    /\ Running
    /\ ByConstructor(Top.type)
    /\ Top.next <= Len(Signature(Top.type))
    /\ Len(stack) = MaxDepth
    /\ last' = [last EXCEPT !.err = StackExhaustion]
    /\ UNCHANGED <<m_Registrations, call_count, constructed, registered, retrievals,
                   tvars, idvars, stack>>

\* ConstructorFactory<T> has every argument and makes the object.
Stack_construct ==
    /\ Running
    /\ ByConstructor(Top.type)
    /\ Top.next > Len(Signature(Top.type))
    /\ constructed' = constructed + 1
    /\ m_Registrations' = Stored(Top.type, make_shared(constructed + 1))
    /\ Finish(make_shared(constructed + 1))
    /\ UNCHANGED <<call_count, registered, retrievals, tvars, idvars>>

NextStack ==
    \/ \E T \in StackTypes : StackAdd(T)
    \/ \E T \in StackTypes : StackAddSingleton(T)
    \/ \E T \in StackProducible, fn \in Functions : StackAddFn(T, fn)
    \/ \E T \in StackProducible, fn \in Functions : StackAddSingletonFn(T, fn)
    \/ \E T \in StackTypes : Stack_get(T)
    \/ Stack_cached
    \/ Stack_function
    \/ ConstructorArgumentResolver_convert
    \/ Stack_exhausted
    \/ Stack_construct

\* Retrievals followed call by call.
SpecStack == Init /\ [][NextStack]_vars

\* ------------------------------------------------------------------- claims

Keys == DOMAIN m_Registrations

\* The providers of a bound type, and the one get<T>() uses.
ProvidersOf(T) == m_Registrations[T]
LastProvider(T) == m_Registrations[T][Len(m_Registrations[T])]
AllProviders == UNION {{m_Registrations[T][i] : i \in 1..Len(m_Registrations[T])} : T \in Keys}

Latest(seq) == seq[Len(seq)]

\* The last call was a get<T>() that returned an instance.
GotInstance(T) == last.op = "get" /\ last.type = T /\ last.err = NoException

\* The last call was a get<T>() that threw ComponentCreationException.
GetFailed(T) ==
    /\ last.op = "get" /\ last.type = T
    /\ last.err = ComponentCreationException /\ last.val = nullptr

\* C1: a binding registered in singleton scope builds its instance at most
\* once, exactly once as soon as a retrieval went through it, it has returned
\* one and the same instance however often it was asked, and a get<T>() that
\* returns while the binding is the last of T returns that instance.
C1_SingletonSameInstanceBuiltOnce ==
    /\ \A p \in AllProviders :
          p.scope = "singleton" =>
             /\ p.invoked <= 1
             /\ (p.outs # <<>> => p.invoked = 1)
             /\ \A a, b \in 1..Len(p.outs) : p.outs[a] = p.outs[b]
    /\ \A T \in Keys :
          LastProvider(T).scope = "singleton" /\ GotInstance(T) =>
             /\ LastProvider(T).outs # <<>>
             /\ last.val = Latest(LastProvider(T).outs)

\* Three consecutive get<Base>() on a singleton function binding returned.
C1_Witness ==
    /\ "Base" \in Keys
    /\ LastProvider("Base").scope = "singleton"
    /\ LastProvider("Base").storage.factory = FunctionFactory("factory")
    /\ Len(LastProvider("Base").outs) = 3
    /\ GotInstance("Base")
    /\ retrievals = 3
    /\ call_count["factory"] = 1

\* C2: a binding registered in transient scope (a constructor or a function
\* behind it) builds once per retrieval that goes through it, the instances
\* it has returned are pairwise distinct, and a get<T>() that returns while
\* the binding is the last of T returns the newest of them.
C2_TransientFreshInstancePerRetrieval ==
    /\ \A p \in AllProviders :
          p.scope = "transient" =>
             /\ p.invoked = Len(p.outs)
             /\ \A a, b \in 1..Len(p.outs) :
                   a # b /\ p.outs[a] # nullptr => p.outs[a] # p.outs[b]
    /\ \A T \in Keys :
          LastProvider(T).scope = "transient" /\ GotInstance(T) =>
             /\ LastProvider(T).outs # <<>>
             /\ last.val = Latest(LastProvider(T).outs)
             /\ \A a \in 1..(Len(LastProvider(T).outs) - 1) :
                   LastProvider(T).outs[a] # last.val

\* Three consecutive get<Base>() on a transient function binding returned.
C2_Witness ==
    /\ "Base" \in Keys
    /\ LastProvider("Base").scope = "transient"
    /\ LastProvider("Base").storage.factory = FunctionFactory("factory")
    /\ Len(LastProvider("Base").outs) = 3
    /\ GotInstance("Base")
    /\ retrievals = 3
    /\ call_count["factory"] = 3

\* A transient binding of the function that returns nullptr.
TransientNull(p) ==
    p.scope = "transient" /\ p.storage.factory = FunctionFactory("null_factory")

\* C3: while the last binding of T is a transient binding of a function that
\* returns nullptr, every get<T>() throws ComponentCreationException and
\* gives no instance.
C3_TransientNullAlwaysThrows ==
    \A T \in Keys :
       TransientNull(LastProvider(T)) /\ last.op = "get" /\ last.type = T =>
          GetFailed(T)

\* The second get<Base>() in a row on such a binding has thrown.
C3_Witness ==
    /\ "Base" \in Keys
    /\ TransientNull(LastProvider("Base"))
    /\ Len(LastProvider("Base").outs) >= 2
    /\ GetFailed("Base")

\* A singleton binding of the function that returns nullptr.
SingletonNull(p) ==
    p.scope = "singleton" /\ p.storage.factory = FunctionFactory("null_factory")

\* C4: a singleton binding of a function that returns nullptr invokes the
\* function once, on the first retrieval, keeps the empty result in its
\* cache slot, and yields empty on every retrieval.
C4_SingletonNullCachedNoRetry ==
    \A p \in AllProviders :
       SingletonNull(p) =>
          /\ p.invoked <= 1
          /\ \A a \in 1..Len(p.outs) : p.outs[a] = nullptr
          /\ p.outs # <<>> =>
                /\ p.invoked = 1
                /\ p.storage.built
                /\ p.storage.m_Instance = nullptr

\* Three retrievals of such a binding, the function called once.
C4_Witness ==
    \E p \in AllProviders :
       /\ SingletonNull(p)
       /\ Len(p.outs) = 3
       /\ p.invoked = 1
       /\ call_count["null_factory"] = 1

\* C5: a get<std::vector<T>>() that returns gives as many instances as
\* registrations were made for T, none for a type never registered, and its
\* i-th element is what the i-th provider of T returned in that call.
C5_CollectionInRegistrationOrder ==
    last.op = "get_vector" /\ last.err = NoException =>
       /\ Len(last.vals) = registered[last.type]
       /\ last.type \in Keys =>
             /\ Len(last.vals) = Len(ProvidersOf(last.type))
             /\ \A i \in 1..Len(ProvidersOf(last.type)) :
                   /\ ProvidersOf(last.type)[i].outs # <<>>
                   /\ last.vals[i] = Latest(ProvidersOf(last.type)[i].outs)

\* get<std::vector<Base>>() over a singleton binding followed by a transient
\* one, the second time: two distinct instances, the singleton's first.
C5_Witness ==
    /\ last.op = "get_vector" /\ last.type = "Base" /\ last.err = NoException
    /\ registered["Base"] = 2
    /\ ProvidersOf("Base")[1].scope = "singleton"
    /\ ProvidersOf("Base")[2].scope = "transient"
    /\ Len(ProvidersOf("Base")[2].outs) = 2
    /\ Len(last.vals) = 2
    /\ last.vals[1] # nullptr /\ last.vals[2] # nullptr
    /\ last.vals[1] # last.vals[2]
    /\ last.vals[1] = ProvidersOf("Base")[1].storage.m_Instance

\* A step that is a get<T>() of a bound type T: every provider of T but the
\* last is left as it was (not invoked, its cache untouched), and a value
\* that is returned is the one the last provider gave in this step.
C6_Step ==
    last'.op = "get" /\ last'.type \in DOMAIN m_Registrations =>
       LET T == last'.type
           n == Len(m_Registrations[T])
       IN  /\ Len(m_Registrations'[T]) = n
           /\ \A i \in 1..(n - 1) : m_Registrations'[T][i] = m_Registrations[T][i]
           /\ last'.err = NoException =>
                 /\ m_Registrations'[T][n].outs =
                       Append(m_Registrations[T][n].outs, last'.val)
                 /\ last'.val # nullptr

\* C6: single-instance retrieval uses the provider registered last at the
\* time of the call, and no earlier provider of that type.
C6_LastWriteWins == [][C6_Step]_vars

\* get<Base>() after a second registration for Base that was made when the
\* first, a singleton, held a cached instance (two retrievals, one through
\* each provider): the value is not the cached one.
C6_Witness ==
    /\ "Base" \in Keys
    /\ GotInstance("Base")
    /\ Len(ProvidersOf("Base")) = 2
    /\ ProvidersOf("Base")[1].scope = "singleton"
    /\ ProvidersOf("Base")[1].storage.built
    /\ ProvidersOf("Base")[1].storage.m_Instance # nullptr
    /\ retrievals = 2
    /\ Len(ProvidersOf("Base")[1].outs) = 1
    /\ Len(ProvidersOf("Base")[2].outs) = 1
    /\ last.val # ProvidersOf("Base")[1].storage.m_Instance
    /\ last.val = Latest(ProvidersOf("Base")[2].outs)

\* C7: a try_add or try_add_singleton call, in any form, for a type that has
\* a binding leaves the binding table as it is and invokes no producer and no
\* constructor.
C7_TryAddOnBoundIsNoOp ==
    [][last'.op = "try_add" /\ last'.type \in DOMAIN m_Registrations =>
          UNCHANGED <<m_Registrations, call_count, constructed>>]_vars

\* A try_ call for a type whose only provider has already been retrieved from.
C7_Witness ==
    /\ last.op = "try_add"
    /\ last.type \in Keys
    /\ Len(ProvidersOf(last.type)) = 1
    /\ LastProvider(last.type).outs # <<>>
    /\ registered[last.type] = 1

\* C8: contains<T>() holds exactly of the types a registration was made
\* for: it is what a contains call returns, and it holds right after every
\* registration call for T.
C8_ContainsIffRegistered ==
    /\ \A T \in Types : contains(m_Registrations, T) <=> registered[T] > 0
    /\ last.op = "contains" => (last.flag <=> registered[last.type] > 0)
    /\ last.op \in {"add", "try_add"} => contains(m_Registrations, last.type)

\* contains<T>() returned true while another type has no binding.
C8_Witness ==
    /\ last.op = "contains" /\ last.flag
    /\ registered[last.type] > 0
    /\ \E T \in Types : registered[T] = 0 /\ ~contains(m_Registrations, T)

\* C9: a contains<T>() call changes neither the binding table, the caches in
\* it included, nor the count of any producer or constructor, and it does
\* not throw.
C9_ContainsHasNoEffect ==
    [][last'.op = "contains" =>
          /\ UNCHANGED <<m_Registrations, call_count, constructed>>
          /\ last'.err = NoException]_vars

\* contains<T>() of a type without binding, in a table with a filled
\* singleton cache.
C9_Witness ==
    /\ last.op = "contains" /\ ~last.flag
    /\ last.type \notin Keys
    /\ \E p \in AllProviders : p.scope = "singleton" /\ p.storage.built
    /\ constructed > 0

\* A step that is a retrieval of a type without binding: the collection
\* form returns an empty vector, throws nothing and builds nothing; the
\* single-instance form of a type whose constructor takes no argument
\* constructs one object and returns it.
C10_Step ==
    /\ last'.op = "get_vector" /\ last'.type \notin DOMAIN m_Registrations =>
          /\ last'.vals = <<>>
          /\ last'.err = NoException
          /\ UNCHANGED <<m_Registrations, call_count, constructed>>
    /\ last'.op = "get" /\ last'.type \notin DOMAIN m_Registrations
          /\ Params(last'.type) = <<>> =>
          /\ constructed' = constructed + 1
          /\ last'.val = make_shared(constructed')
          /\ last'.err = NoException

\* C10: collection retrieval of a type without binding gives an empty
\* sequence and does not fall back to construction.
C10_CollectionOfUnboundIsEmpty == [][C10_Step]_vars

\* get<std::vector<Derived>>() with Base bound to Derived and no binding for
\* Derived itself.
C10_Witness ==
    /\ last.op = "get_vector" /\ last.type = "Derived"
    /\ "Derived" \notin Keys
    /\ "Base" \in Keys /\ LastProvider("Base").derived = "Derived"
    /\ last.vals = <<>>
    /\ last.err = NoException

\* Every constructor parameter type of T is resolvable in the injector as it
\* is: get<P>() returns an instance.
Resolvable(T) ==
    \A i \in 1..Len(Params(T)) : get(Now, Params(T)[i]).err = NoException

\* A step that is a get<T>() of a type without binding whose constructor
\* dependencies are resolvable: it throws nothing and returns a new, non-empty
\* object, the newest one made; the table gets no key for T.
C11_Step ==
    last'.op = "get" /\ last'.type \notin DOMAIN m_Registrations
       /\ Resolvable(last'.type) =>
       /\ last'.err = NoException
       /\ last'.val # nullptr
       /\ constructed' > constructed
       /\ last'.val = make_shared(constructed')
       /\ last'.type \notin DOMAIN m_Registrations'

\* C11: get<T>() of a type without a registered provider falls back to
\* constructing T with injected arguments and returns a non-empty instance
\* whenever every constructor dependency of T is resolvable.
C11_FallbackConstructionSucceeds == [][C11_Step]_vars

\* get<Client>() without binding for Client returned a Client whose Base
\* argument came from a registered function binding of Base.
C11_Witness ==
    /\ GotInstance("Client")
    /\ "Client" \notin Keys
    /\ "Base" \in Keys
    /\ LastProvider("Base").storage.factory = FunctionFactory("factory")
    /\ Len(LastProvider("Base").outs) = 1
    /\ retrievals = 1
    /\ constructed = 2
    /\ last.val = make_shared(2)

\* A binding registered with add<Base, Derived>(data).
Constant(p) == p.scope = "constant"

\* C12: a binding registered with a preconstructed value returns that very
\* value on every retrieval through it: everything it has given is the value
\* handed in at registration, it sits in a transient storage that caches
\* nothing, and a get<T>() that returns while it is the last binding of T
\* returns the preconstructed object.
C12_ConstantBindingReturnsItsValue ==
    /\ \A p \in AllProviders :
          Constant(p) =>
             /\ p.storage.kind = "InstanceStorage"
             /\ ~p.storage.built
             /\ p.invoked = Len(p.outs)
             /\ \A a \in 1..Len(p.outs) :
                   p.outs[a] \in Data /\ p.outs[a] = p.storage.factory.data
    /\ \A T \in Keys :
          Constant(LastProvider(T)) /\ GotInstance(T) => last.val = Preconstructed

\* Three consecutive get<Base>() on a binding of the preconstructed object.
C12_Witness ==
    /\ "Base" \in Keys
    /\ Constant(LastProvider("Base"))
    /\ LastProvider("Base").storage.factory = ConstantFactory(Preconstructed)
    /\ LastProvider("Base").outs = <<Preconstructed, Preconstructed, Preconstructed>>
    /\ GotInstance("Base")
    /\ last.val = Preconstructed
    /\ retrievals = 3

\* The registration a provider was made by: everything of it but its cache
\* slot and its history.
Binding(p) ==
    [kind |-> p.kind, base |-> p.base, derived |-> p.derived,
     storage |-> p.storage.kind, factory |-> p.storage.factory, scope |-> p.scope]

\* The last provider of P, in the table `regs`, gives an empty pointer: it
\* holds the function that returns nullptr, or an empty preconstructed value.
YieldsEmpty(regs, P) ==
    /\ P \in DOMAIN regs
    /\ regs[P][Len(regs[P])].storage.factory \in
          {FunctionFactory("null_factory"), ConstantFactory(nullptr)}

\* A retrieval through provider p runs its factory.
NeedsBuild(p) == p.storage.kind = "InstanceStorage" \/ ~p.storage.built

\* A retrieval through provider p constructs p.derived by default and one of
\* the constructor's parameters cannot be resolved.
DependencyFails(regs, p) ==
    /\ p.storage.factory = ConstructorFactory
    /\ NeedsBuild(p)
    /\ \E i \in 1..Len(Params(p.derived)) : YieldsEmpty(regs, Params(p.derived)[i])

\* The providers of T in the table `regs`, none when T is no key.
ProvidersIn(regs, T) == IF T \in DOMAIN regs THEN regs[T] ELSE <<>>

\* C13 as stated: no get<std::vector<T>>() ends in a
\* ComponentCreationException.
C13_CollectionNeverThrows ==
    last.op = "get_vector" => last.err # ComponentCreationException

\* A step that is a get<std::vector<T>>(): it ends in a
\* ComponentCreationException exactly when a provider of T constructs its
\* type by default and a constructor dependency cannot be resolved;
\* otherwise it returns one element per provider, the empty pointer for a
\* provider that yields empty.
C13_Step ==
    last'.op = "get_vector" =>
       LET ps == ProvidersIn(m_Registrations, last'.type)
           failing == \E i \in 1..Len(ps) : DependencyFails(m_Registrations, ps[i])
       IN  /\ last'.err \in {NoException, ComponentCreationException}
           /\ last'.err = ComponentCreationException <=> failing
           /\ ~failing =>
                 /\ Len(last'.vals) = Len(ps)
                 /\ \A i \in 1..Len(ps) :
                       ps[i].storage.factory \in
                          {FunctionFactory("null_factory"), ConstantFactory(nullptr)}
                       => last'.vals[i] = nullptr

\* C13 (amended): collection retrieval raises no ComponentCreationException
\* of its own, a provider that yields empty contributes an empty element; the
\* only ComponentCreationException it ends in is the one thrown by the nested
\* single-instance retrieval of a constructor dependency.
C13_CollectionThrowsOnlyFromDependency == [][C13_Step]_vars

\* get<std::vector<Base>>() over a provider that yields empty and one that
\* does not: an empty element, then an instance, and no exception.
C13_Witness ==
    /\ last.op = "get_vector" /\ last.type = "Base"
    /\ last.err = NoException
    /\ Len(last.vals) = 2
    /\ last.vals[1] = nullptr
    /\ last.vals[2] # nullptr
    /\ ProvidersOf("Base")[1].storage.factory = FunctionFactory("null_factory")

\* A step that is a get<T>() that constructs by default (T is without
\* binding, or its last provider holds the constructor factory and has to
\* build) while a constructor parameter's last provider yields empty: the
\* call throws ComponentCreationException, no object is made, and the
\* provider of T, its cache slot included, is as before.
C15_Step ==
    last'.op = "get" =>
       LET T == last'.type
           bound == T \in DOMAIN m_Registrations
           p == m_Registrations[T][Len(m_Registrations[T])]
           fails == IF bound THEN DependencyFails(m_Registrations, p)
                    ELSE \E i \in 1..Len(Params(T)) :
                            YieldsEmpty(m_Registrations, Params(T)[i])
       IN  fails =>
              /\ last'.err = ComponentCreationException
              /\ last'.val = nullptr
              /\ constructed' = constructed
              /\ bound => m_Registrations'[T] = m_Registrations[T]
              /\ ~bound => T \notin DOMAIN m_Registrations'

\* C15: when T is built by the default-construction factory and the
\* retrieval of a constructor parameter type fails with a
\* ComponentCreationException, get<T>() fails with that exception and no T is
\* constructed or cached.
C15_DependencyFailurePropagates == [][C15_Step]_vars

\* The second get<Client>() on a singleton binding of Client has thrown, Base
\* being bound to the function that returns nullptr; nothing was cached.
C15_Witness ==
    /\ GetFailed("Client")
    /\ "Client" \in Keys /\ "Base" \in Keys
    /\ LastProvider("Client").scope = "singleton"
    /\ LastProvider("Client").storage.factory = ConstructorFactory
    /\ ~LastProvider("Client").storage.built
    /\ LastProvider("Client").outs = <<>>
    /\ LastProvider("Base").storage.factory = FunctionFactory("null_factory")
    /\ Len(LastProvider("Base").outs) = 2
    /\ constructed = 0

\* A step that is a retrieval: the table has the keys it had and under each
\* the providers it had, made by the same registrations in the same order;
\* after a get<T>() that constructed a T without binding, T is still without
\* binding and the instance is a new one.
C19_Step ==
    last'.op \in {"get", "get_vector"} =>
       /\ DOMAIN m_Registrations' = DOMAIN m_Registrations
       /\ \A T \in DOMAIN m_Registrations :
             /\ Len(m_Registrations'[T]) = Len(m_Registrations[T])
             /\ \A i \in 1..Len(m_Registrations[T]) :
                   Binding(m_Registrations'[T][i]) = Binding(m_Registrations[T][i])
       /\ last'.op = "get" /\ last'.type \notin DOMAIN m_Registrations
             /\ last'.err = NoException =>
             /\ ~contains(m_Registrations', last'.type)
             /\ constructed' > constructed
             /\ last'.val = make_shared(constructed')

\* C19: retrievals never change the binding table; a get<T>() that falls
\* back to constructing an unregistered T leaves contains<T>() false and
\* every further one constructs a new instance.
C19_RetrievalKeepsBindingTable == [][C19_Step]_vars

\* The second get<Derived>() in a row without binding for Derived, in a table
\* that binds the other two types: a second object.
C19_Witness ==
    /\ GotInstance("Derived")
    /\ Keys = {"Base", "Client"}
    /\ retrievals = 2
    /\ constructed = 2
    /\ last.val = make_shared(2)
    /\ \A q \in AllProviders : q.outs = <<>>

\* A step keeps every key, and under each key the providers it had, in
\* their places; a list grows by at most one provider, at its end.
C20_Step ==
    \A T \in DOMAIN m_Registrations :
       /\ T \in DOMAIN m_Registrations'
       /\ Len(m_Registrations'[T]) \in
             {Len(m_Registrations[T]), Len(m_Registrations[T]) + 1}
       /\ \A i \in 1..Len(m_Registrations[T]) :
             Binding(m_Registrations'[T][i]) = Binding(m_Registrations[T][i])

\* Every key of the table has at least one provider.
C20_NonEmpty == \A T \in Keys : Len(ProvidersOf(T)) > 0

\* C20: every key of the binding table has a non-empty provider list, so
\* back() in get_unchecked is defined; the lists only grow, by appending, and
\* no key is removed.
C20_ProviderListsNonEmptyAndGrowOnly == []C20_NonEmpty /\ [][C20_Step]_vars

\* A second provider was appended under a key whose first provider had
\* already been retrieved from.
C20_Witness ==
    /\ last.op = "add"
    /\ last.type \in Keys
    /\ Len(ProvidersOf(last.type)) = 2
    /\ ProvidersOf(last.type)[1].outs # <<>>
    /\ ProvidersOf(last.type)[2].outs = <<>>
    /\ Binding(ProvidersOf(last.type)[1]) # Binding(ProvidersOf(last.type)[2])

\* The <<type, id>> pairs that calls of type_id have returned.
ReturnedIds == UNION {{got[t][i] : i \in 1..Len(got[t])} : t \in Threads}

\* Same type, same id; two types, two ids.
C14_OneIdPerType ==
    \A a, b \in ReturnedIds : a[1] = b[1] <=> a[2] = b[2]

\* An id that is assigned stays as it is.
C14_Step ==
    \A T \in Types :
       id_guard[T] = "initialized" =>
          id_guard'[T] = "initialized" /\ id_value'[T] = id_value[T]

\* C14: under every interleaving of threads that ask for type ids, requests
\* for the same type return the same integer, requests for two types return
\* two integers, and an id once assigned is never assigned again.
C14_TypeIdsStableAndDistinct == []C14_OneIdPerType /\ [][C14_Step]_vars

\* Two threads whose first request was for the same type both got its id,
\* and one of them another id for another type.
C14_Witness ==
    /\ \A t \in {1, 2} : Len(got[t]) >= 1 /\ got[t][1][1] = "Base"
    /\ got[1][1][2] = got[2][1][2]
    /\ Len(got[1]) = 2 /\ got[1][2][1] = "Derived"
    /\ got[1][2][2] # got[1][1][2]
    /\ s_LastIndex = 2

\* The results of the get<T>() calls that have ended, of one thread and of all.
ResultsOf(t) == {got[t][i][2] : i \in 1..Len(got[t])}
Results == UNION {ResultsOf(t) : t \in Threads}

\* The objects made so far.
Made == {make_shared(n) : n \in 1..constructed}

\* C17, what the race is bounded by: with no lock around the cache slot the
\* producer of a singleton binding
\* runs once for every thread that finds the slot empty, which a thread does
\* at most once: it runs NumThreads times at most, every call returns an
\* instance the producer made, and the calls return at most as many
\* instances as the producer ran.
C17_ProducerRunsOncePerRacingThread ==
    /\ call_count["factory"] <= NumThreads
    /\ constructed = call_count["factory"]
    /\ \A r \in Results : r.err = NoException /\ r.val \in Made
    /\ Cardinality(Results) <= call_count["factory"]
    /\ \A p \in AllProviders : p.storage.built => p.storage.m_Instance \in Made

\* The race of C17: two threads that made the first retrieval at the same
\* time both ran the producer and obtained two instances.
C17_Witness ==
    /\ Len(got[1]) = 1 /\ Len(got[2]) = 1
    /\ got[1][1][1] = got[2][1][1]
    /\ got[1][1][2].val # got[2][1][2].val
    /\ got[1][1][2].err = NoException /\ got[2][1][2].err = NoException
    /\ call_count["factory"] = 2
    /\ Len(m_Registrations[got[1][1][1]]) = 1

\* C18, what the race is bounded by: with test and registration as two steps
\* and nothing that makes them one, a type gets one provider for
\* every thread that found it unbound, which a thread does at most once per
\* type: no type has more providers than there are threads, every provider
\* comes from a registration that ran, and a step that is the test of a
\* bound type sends the thread to the return.
C18_OneProviderPerRacingThread ==
    /\ \A T \in Keys :
          /\ Len(ProvidersOf(T)) <= NumThreads
          /\ Len(ProvidersOf(T)) = registered[T]
    /\ \A t \in Threads :
          pc[t] = "try_add_register" => local[t] = FALSE
    /\ \A t \in Threads :
          pc[t] = "try_add_return" /\ local[t] = TRUE => arg[t][1] \in Keys

\* The race of C18: two threads that call try_add<T>(fn) for the same
\* unbound type both passed the test, and the type has two providers.
C18_Witness ==
    /\ Len(got[1]) = 1 /\ Len(got[2]) = 1
    /\ got[1][1][1][1] = "Derived" /\ got[2][1][1][1] = "Derived"
    /\ got[1][1][2] = FALSE /\ got[2][1][2] = FALSE
    /\ Len(ProvidersOf("Derived")) = 2
    /\ \A t \in Threads : pc[t] = "idle"

\* The classes whose constructors take each other.
CycleTypes == {T \in StackTypes : \E i \in 1..Len(Signature(T)) :
                  T \in {Signature(Signature(T)[i])[j] :
                            j \in 1..Len(Signature(Signature(T)[i]))}}

\* Every class on the cycle is resolved by default construction: it has no
\* binding, or its last binding, transient or singleton, is of the
\* constructor and holds no instance.
CycleByConstruction == \A T \in CycleTypes : ByConstructor(T)

\* A get<T>() of a class on such a cycle has not returned and has not
\* thrown: it is in progress or has run out of stack, the calls in progress
\* go round the cycle, none has got its argument, and no class of the cycle
\* has an instance in a singleton slot.
C16_NotCompleted ==
    last.op = "get" /\ last.type \in CycleTypes /\ CycleByConstruction =>
       /\ last.err \in {Pending, StackExhaustion}
       /\ stack # <<>>
       /\ stack[1].type = last.type
       /\ \A i \in 1..Len(stack) :
             /\ stack[i].type \in CycleTypes
             /\ stack[i].next = 1
             /\ i < Len(stack) => stack[i + 1].type = Signature(stack[i].type)[1]
       /\ \A T \in CycleTypes \cap Keys :
             \A i \in 1..Len(ProvidersOf(T)) :
                ProvidersOf(T)[i].storage.factory = ConstructorFactory
                   => ~ProvidersOf(T)[i].storage.built

\* A step of such a get<T>() adds a call, or finds no room for it.
C16_Step ==
    stack # <<>> /\ stack[1].type \in CycleTypes /\ CycleByConstruction
       /\ last.err = Pending =>
       \/ Len(stack') = Len(stack) + 1 /\ last'.err = Pending
       \/ /\ Len(stack) = MaxDepth
          /\ stack' = stack
          /\ last'.err = StackExhaustion

\* C16: get<T>() of a class whose constructor dependencies form a cycle, all
\* classes on it resolved by default construction (no binding, a transient
\* or a singleton one), never completes: the nesting grows with every step
\* until the stack has no room, no cycle is found and no typed error comes
\* back.
C16_CycleNeverCompletes == []C16_NotCompleted /\ [][C16_Step]_vars

\* get<Ping>() with Pong bound as a singleton and Ping without binding has
\* filled the stack with calls for Ping and Pong in turn.
C16_Witness ==
    /\ last.op = "get" /\ last.type = "Ping"
    /\ last.err = StackExhaustion
    /\ Len(stack) = MaxDepth
    /\ stack[MaxDepth].type = "Pong"
    /\ "Ping" \notin Keys
    /\ "Pong" \in Keys
    /\ LastProvider("Pong").scope = "singleton"
    /\ LastProvider("Pong").storage.factory = ConstructorFactory
    /\ constructed = 0

\* Every provider is filed under the type it was registered for as Base,
\* and a type has a key only when a registration named it as Base.
C21_KeyedOnBase ==
    \A T \in Keys :
       /\ registered[T] > 0
       /\ \A i \in 1..Len(ProvidersOf(T)) : ProvidersOf(T)[i].base = T

\* The instances that sit in singleton slots.
CachedInstances ==
    {p.storage.m_Instance : p \in {q \in AllProviders : q.storage.built}}

\* A registration adds no key but the Base it names; a get<T>() of a type
\* without key constructs an object that is in no singleton's slot.
C21_Step ==
    /\ last'.op \in {"add", "try_add"} =>
          DOMAIN m_Registrations' \subseteq DOMAIN m_Registrations \cup {last'.type}
    /\ last'.op = "get" /\ last'.type \notin DOMAIN m_Registrations
          /\ last'.err = NoException =>
          /\ last'.type \notin DOMAIN m_Registrations'
          /\ last'.val \notin CachedInstances
          /\ last'.val # nullptr

\* C21: a binding from Base to Derived is keyed on Base's identity only:
\* after add_singleton<Base, Derived>() contains<Derived>() is still false,
\* and get<Derived>() constructs a Derived of its own, not the singleton that
\* get<Base>() returns.
C21_BindingKeyedOnBaseOnly == []C21_KeyedOnBase /\ [][C21_Step]_vars

\* After add_singleton<Base, Derived>() and a get<Base>(), get<Derived>()
\* returned another object and Derived has no key.
C21_Witness ==
    /\ Keys = {"Base"}
    /\ Len(ProvidersOf("Base")) = 1
    /\ Binding(LastProvider("Base")) =
          Binding(add_singleton_derived(m_Registrations, "Base", "Derived")["Base"][2])
    /\ LastProvider("Base").storage.built
    /\ LastProvider("Base").outs = <<make_shared(1)>>
    /\ ~contains(m_Registrations, "Derived")
    /\ GotInstance("Derived")
    /\ last.val = make_shared(2)
    /\ last.val # LastProvider("Base").storage.m_Instance

\* C22: the cache slot of a singleton binding is the one both retrieval
\* paths use: what get<std::vector<T>>() returns for a singleton provider and
\* what get<T>() returns when that provider is the last one is the instance
\* in its slot, the same as everything the provider gave before, and its
\* producer has run once.
C22_SingletonCacheSharedByBothPaths ==
    /\ last.op = "get_vector" /\ last.err = NoException /\ last.type \in Keys =>
          \A i \in 1..Len(ProvidersOf(last.type)) :
             LET p == ProvidersOf(last.type)[i]
             IN  p.scope = "singleton" =>
                    /\ p.storage.built
                    /\ last.vals[i] = p.storage.m_Instance
                    /\ p.invoked = 1
                    /\ \A a \in 1..Len(p.outs) : p.outs[a] = last.vals[i]
    /\ \A T \in Keys :
          GotInstance(T) /\ LastProvider(T).scope = "singleton" =>
             /\ LastProvider(T).storage.built
             /\ last.val = LastProvider(T).storage.m_Instance
             /\ LastProvider(T).invoked = 1
             /\ \A a \in 1..Len(LastProvider(T).outs) : LastProvider(T).outs[a] = last.val

\* Two singleton bindings of Base by the counting function; a
\* get<std::vector<Base>>(), a get<Base>() and a get<std::vector<Base>>()
\* again: the second binding gave one instance three times, the function ran
\* twice, once for each binding.
C22_Witness ==
    /\ last.op = "get_vector" /\ last.type = "Base" /\ last.err = NoException
    /\ "Base" \in Keys
    /\ Len(ProvidersOf("Base")) = 2
    /\ \A i \in {1, 2} :
          /\ ProvidersOf("Base")[i].scope = "singleton"
          /\ ProvidersOf("Base")[i].storage.factory = FunctionFactory("factory")
    /\ ProvidersOf("Base")[1].outs = <<make_shared(1), make_shared(1)>>
    /\ ProvidersOf("Base")[2].outs = <<make_shared(2), make_shared(2), make_shared(2)>>
    /\ last.vals = <<make_shared(1), make_shared(2)>>
    /\ retrievals = 3
    /\ call_count["factory"] = 2

\* The constructor parameters get<T>() has to resolve in this state: those
\* of T when T is resolved by default construction, none when a filled slot
\* or the caller's function gives the instance.
Dependencies(T) == IF ByConstructor(T) THEN Signature(T) ELSE <<>>

\* The longest chain of dependencies a graph without cycle can have.
Longest == Cardinality(StackTypes)

\* The number of classes on the longest chain of dependencies from T; more
\* than Longest when a chain comes back to a class on it.
RECURSIVE Height(_, _)
Height(T, fuel) ==
    IF fuel = 0 THEN Longest + 1
    ELSE LET below == {Height(Dependencies(T)[i], fuel - 1) :
                          i \in 1..Len(Dependencies(T))} \cup {0}
         IN  1 + (CHOOSE h \in below : \A g \in below : g <= h)

\* The dependency graph reachable from T has no cycle.
Acyclic(T) == Height(T, Longest) <= Longest

\* Depth(T): the depth of that graph.
Depth(T) == Height(T, Longest)

\* An upper bound of the steps get<T>() takes: two for the call itself (to
\* enter and to leave), and those of the parameters from the k-th on.
RECURSIVE Cost(_, _, _)
Cost(T, k, fuel) ==
    IF fuel = 0 \/ k > Len(Dependencies(T)) THEN 0
    ELSE 2 + Cost(Dependencies(T)[k], 1, fuel - 1) + Cost(T, k + 1, fuel)

\* The steps the calls in progress still have to take: each frame has to
\* leave, and to resolve the parameters after the one an inner frame is
\* resolving.
RECURSIVE Rank(_)
Rank(i) ==
    IF i > Len(stack) THEN 0
    ELSE 1 + Cost(stack[i].type,
                  IF i = Len(stack) THEN stack[i].next ELSE stack[i].next + 1,
                  Longest)
           + Rank(i + 1)

\* A get<T>() over a graph without cycle is in progress with at most
\* Depth(T) calls nested, each one no deeper than the graph below it allows,
\* and some step of it can be taken; or it has ended, with an instance or
\* with ComponentCreationException. It never runs out of stack.
C23_BoundedNesting ==
    last.op = "get" /\ last.type \in StackTypes /\ Acyclic(last.type) =>
       /\ last.err \in {Pending, NoException, ComponentCreationException}
       /\ Len(stack) <= Depth(last.type)
       /\ \A i \in 1..Len(stack) : i + Depth(stack[i].type) <= Depth(last.type) + 1
       /\ last.err = Pending =>
             /\ stack # <<>>
             /\ stack[1].type = last.type
             /\ Rank(1) <= 1 + Cost(last.type, 1, Longest)
             /\ ENABLED (\/ Stack_cached
                         \/ Stack_function
                         \/ ConstructorArgumentResolver_convert
                         \/ Stack_construct)
       /\ last.err = NoException => stack = <<>> /\ last.val # nullptr
       /\ last.err = ComponentCreationException => stack = <<>>

\* Every step of such a get<T>() brings it nearer to its end, and it ends
\* with an instance or with ComponentCreationException.
C23_Step ==
    Running /\ Acyclic(stack[1].type) =>
       /\ Rank(1)' < Rank(1)
       /\ Len(stack') <= Len(stack) + 1
       /\ stack' = <<>> => last'.err \in {NoException, ComponentCreationException}
       /\ stack' # <<>> => last'.err = Pending

\* C23: when the constructor-dependency graph reachable from the requested
\* type is finite and has no cycle, get<T>() ends, with an instance or with
\* ComponentCreationException, and the calls nested in it never go deeper
\* than the depth of that graph.
C23_AcyclicRetrievalTerminates == []C23_BoundedNesting /\ [][C23_Step]_vars

\* get<Node>() with no binding at all has returned the second object made:
\* the Leaf was constructed in a nested get<Leaf>(), then the Node.
C23_Witness ==
    /\ last.op = "get" /\ last.type = "Node"
    /\ last.err = NoException
    /\ last.val = make_shared(2)
    /\ stack = <<>>
    /\ Keys = {}
    /\ constructed = 2
    /\ retrievals = 1
    /\ Depth("Node") = 2

============================================================================
